---- MODULE Spec2Model ----
(***************************************************************************)
(* The system tray subsystem of crates/tauri/src/app/tray.rs:              *)
(* get_menu_ids (the Registry flattening), SystemTrayHandle (get_item,     *)
(* set_icon, set_menu) and SystemTrayMenuItemHandle (set_enabled,          *)
(* set_title, set_selected), called by several threads through clones of   *)
(* one handle.  Every clone shares the Arc<Mutex<HashMap>> `ids` and the   *)
(* tray handler `inner`, so the model has one `ids`, one `mutex` and one   *)
(* native tray.                                                            *)
(***************************************************************************)
EXTENDS Integers, Sequences, FiniteSets, TLC

VARIABLES
  ids,        \* SystemTrayHandle.ids: the Registry, MenuHash -> MenuId
  mutex,      \* owner of the Mutex around ids (NoThread when unlocked)
  native,     \* menu tree installed in the native tray (R::TrayHandler)
  trayIcon,   \* icon installed in the native tray
  lastUpdate, \* last update_item call received by the native tray
  nUpdates,   \* number of update_item calls received by the native tray
  pc,         \* per thread: position inside the running call
  menuArg,    \* per thread: `menu` argument of set_menu
  localIds,   \* per thread: the local `ids` map built by set_menu
  idArg,      \* per thread: `id` argument of get_item
  seen,       \* per thread: (raw, item_id) pairs the get_item loop has visited
  found,      \* per thread: `*raw` of the matching pair
  item,       \* per thread: SystemTrayMenuItemHandle.id held by the thread
  updArg,     \* per thread: MenuUpdate being sent by the item handle
  iconArg,    \* per thread: `icon` argument of set_icon
  res,        \* per thread: outcome of the thread's last completed call
  calls,      \* number of calls started so far
  regMenu,    \* history: menu whose flattening was last stored into ids
  lastStorer, \* history: thread that last stored into ids (NoThread: constructor)
  startedAfter, \* history, per thread: the threads whose set_menu had returned Ok
               \* (and who had made no call since) when the running get_item began
  callArg,    \* per thread: the item handle method called and its argument
  poisoned,   \* whether the Mutex around ids is poisoned (a holder panicked)
  nSetIcon,   \* number of set_icon calls received by the native tray
  \* clones of the handle, called one after the other (SpecClone)
  arcs,       \* the Arc<Mutex<HashMap>> allocations: address -> Registry
  handles,    \* the SystemTrayHandle values: each holds the address in its `ids`
  cNative,    \* menu tree installed in the native tray
  cSetter,    \* history: handle through which the installed menu was set
  cLast,      \* the last call made through a handle and its outcome
  \* the cli_matches command (SpecCli)
  cliEnabled,   \* the build has the `cli` capability
  cliConfig,    \* context.config.tauri.cli: NoCli or a CLI definition
  cliArgs,      \* the arguments of the process
  cliResponses, \* the responses of the invocations so far, oldest first
  \* Notification::show (SpecNotify)
  nPlatform,  \* "windows" or "other": which cfg the build has
  nExe,       \* what current_exe() yields in this process
  nNotif,     \* the Notification being built: body, title, icon, identifier
  nPc,        \* position of the caller: new, exe, spawn, ret, returned
  nBuilt,     \* the notify_rust::Notification show() fills in
  nTask,      \* the spawned dispatch: none, pending, shown, panicked
  nSpawned,   \* number of tasks handed to the async runtime
  nRes        \* what show() gave its caller: none, Ok, Err, Panic

trayVars == <<ids, mutex, native, trayIcon, lastUpdate, nUpdates, pc, menuArg,
              localIds, idArg, seen, found, item, updArg, iconArg, res, calls,
              regMenu, lastStorer, startedAfter, callArg, poisoned, nSetIcon>>

cloneVars == <<arcs, handles, cNative, cSetter, cLast>>

cliVars == <<cliEnabled, cliConfig, cliArgs, cliResponses>>

notifyVars == <<nPlatform, nExe, nNotif, nPc, nBuilt, nTask, nSpawned, nRes>>

vars == <<trayVars, cloneVars, cliVars, notifyVars>>

----------------------------------------------------------------------------
(* Bounds *)

NumThreads == 2
MaxCalls == 3
MaxNodes == 4

Threads == 1..NumThreads
NoThread == 0
NoItem == 0

----------------------------------------------------------------------------
(* Menu trees: SystemTrayMenu { items: Vec<SystemTrayMenuEntry> } *)

CustomItem(id, id_str) ==
  [kind |-> "CustomItem", id |-> id, id_str |-> id_str, inner |-> <<>>]

NativeItem == [kind |-> "NativeItem", id |-> 0, id_str |-> "", inner |-> <<>>]

Submenu(items) == [kind |-> "Submenu", id |-> 0, id_str |-> "", inner |-> items]

EmptyMap == [raw \in {} |-> ""]

\* an insert that keeps the value of an existing key
Insert_KeepFirst(map, k, v) ==
  [raw \in DOMAIN map \cup {k} |-> IF raw \in DOMAIN map THEN map[raw] ELSE v]

\* HashMap::insert: the value of an existing key is overwritten
Insert(map, k, v) == [raw \in DOMAIN map \cup {k} |-> IF raw = k THEN v ELSE map[raw]]

\* get_menu_ids that also records an entry for the submenu node itself
RECURSIVE get_menu_ids_KeysSubmenus(_, _)
get_menu_ids_KeysSubmenus(map, items) ==
  IF items = <<>> THEN map
  ELSE LET entry == Head(items)
           next == CASE entry.kind = "CustomItem" -> Insert(map, entry.id, entry.id_str)
                     [] entry.kind = "Submenu" ->
                          get_menu_ids_KeysSubmenus(Insert(map, entry.id, entry.id_str),
                                                    entry.inner)
                     [] OTHER -> map
       IN get_menu_ids_KeysSubmenus(next, Tail(items))

\* get_menu_ids that does not descend below the second level of submenus
RECURSIVE get_menu_ids_Depth(_, _, _)
get_menu_ids_Depth(map, items, depth) ==
  IF items = <<>> THEN map
  ELSE LET entry == Head(items)
           next == CASE entry.kind = "CustomItem" -> Insert(map, entry.id, entry.id_str)
                     [] entry.kind = "Submenu" /\ depth < 2 ->
                          get_menu_ids_Depth(map, entry.inner, depth + 1)
                     [] OTHER -> map
       IN get_menu_ids_Depth(next, Tail(items), depth)

get_menu_ids_TwoLevels(map, items) == get_menu_ids_Depth(map, items, 0)

RECURSIVE get_menu_ids(_, _)
get_menu_ids(map, items) ==
  IF items = <<>> THEN map
  ELSE LET entry == Head(items)
           next == CASE entry.kind = "CustomItem" -> Insert(map, entry.id, entry.id_str)
                     [] entry.kind = "Submenu" -> get_menu_ids(map, entry.inner)
                     [] OTHER -> map
       IN get_menu_ids(next, Tail(items))

----------------------------------------------------------------------------
(* Inputs *)

\* identifiers a caller may ask get_item for ("c" names no item of any tree below
\* except the nested one of MenuB)
Ids == {"a", "b", "c"}

\* leaves of the generated trees: two handles and two identifiers, so that trees
\* with a repeated handle and trees with a repeated identifier both occur
TreeLeaves == {CustomItem(1, "a"), CustomItem(2, "b"), CustomItem(1, "b")}

\* Forest(n): the item lists with n entries in all, nested ones included
RECURSIVE Forest(_), Entry(_)
Entry(k) ==
  IF k = 1 THEN TreeLeaves \cup {NativeItem, Submenu(<<>>)}
  ELSE {Submenu(f) : f \in Forest(k - 1)}

Forest(n) ==
  IF n = 0 THEN {<<>>}
  ELSE UNION {{<<e>> \o f : e \in Entry(k), f \in Forest(n - k)} : k \in 1..n}

TreeSet == UNION {Forest(n) : n \in 0..MaxNodes}

\* the menu the tray is built with, and the menus set_menu is called with
MenuA == <<CustomItem(1, "a"), NativeItem, Submenu(<<CustomItem(2, "b")>>)>>

MenuB == <<Submenu(<<Submenu(<<Submenu(<<CustomItem(3, "c")>>)>>)>>), CustomItem(1, "b")>>

Menus == {MenuA, MenuB}

Icons == {"File", "Raw"}

\* MenuUpdate::SetEnabled(bool), SetTitle(String), SetSelected(bool)
Updates ==
  {[kind |-> "SetEnabled", arg |-> "true"], [kind |-> "SetEnabled", arg |-> "false"],
   [kind |-> "SetTitle", arg |-> "title"],
   [kind |-> "SetSelected", arg |-> "true"], [kind |-> "SetSelected", arg |-> "false"]}

NoUpdate == [id |-> NoItem, update |-> [kind |-> "", arg |-> ""], ok |-> FALSE]

\* set_enabled(enabled), set_title(title), set_selected(selected)
ItemCalls ==
  {[method |-> "set_enabled", arg |-> "true"], [method |-> "set_enabled", arg |-> "false"],
   [method |-> "set_title", arg |-> "title"],
   [method |-> "set_selected", arg |-> "true"], [method |-> "set_selected", arg |-> "false"]}

NoCall == [method |-> "", arg |-> ""]

\* upper bound on the number of clone() calls
MaxClones == 2

\* no call made through any handle yet
NoCloneCall == [op |-> "none", via |-> 0, id |-> "", out |-> NoItem, ok |-> TRUE]

\* upper bound on the number of cli_matches invocations
MaxInvokes == 3

\* context.config.tauri.cli is None
NoCli == "None"

\* CLI definitions of tauri.conf.json
CliSchemas == {"flags", "subcommands"}

\* argument lists of the process
ArgLists == {<<>>, <<"--verbose">>, <<"--bogus">>}

\* Err(Error::ApiNotAllowlisted(..)): a value handed back to the caller
NotAllowlisted == [kind |-> "Err", payload |-> <<"ApiNotAllowlisted">>]

\* Option::None of the builder's fields
None == "None"

\* the directory of the running executable, as path components
ExeDirs ==
  {<<"C:", "Program Files", "app">>, <<"C:", "proj", "target", "debug">>,
   <<"C:", "proj", "target", "release">>, <<"C:", "target", "debug", "bin">>}

\* current_exe(): an error, or a path whose parent() is a directory
ExeOutcomes ==
  {[ok |-> FALSE, dir |-> <<>>]} \cup {[ok |-> TRUE, dir |-> d] : d \in ExeDirs}

\* Notification::new(identifier)
NewNotification == [body |-> None, title |-> None, icon |-> None, identifier |-> "com.app"]

\* notify_rust::Notification::new()
NewNative == [body |-> None, summary |-> None, icon |-> None, app_id |-> None]

\* str::ends_with on the directory's components
EndsWith(dir, suffix) ==
  /\ Len(dir) >= Len(suffix)
  /\ SubSeq(dir, Len(dir) - Len(suffix) + 1, Len(dir)) = suffix

\* MenuUpdate::SetSelected built by every method
MenuUpdateOf_AlwaysSelected(call) == [kind |-> "SetSelected", arg |-> call.arg]

\* the MenuUpdate each method passes to update_item
MenuUpdateOf(call) ==
  [kind |-> CASE call.method = "set_enabled" -> "SetEnabled"
              [] call.method = "set_title" -> "SetTitle"
              [] call.method = "set_selected" -> "SetSelected",
   arg |-> call.arg]

----------------------------------------------------------------------------
(* State after the tray is built: the Registry is the flattening of its menu *)

InitTray ==
  /\ ids = get_menu_ids(EmptyMap, MenuA)
  /\ mutex = NoThread
  /\ native = MenuA
  /\ trayIcon = "File"
  /\ lastUpdate = NoUpdate
  /\ nUpdates = 0
  /\ pc = [t \in Threads |-> "idle"]
  /\ menuArg = [t \in Threads |-> <<>>]
  /\ localIds = [t \in Threads |-> EmptyMap]
  /\ idArg = [t \in Threads |-> ""]
  /\ seen = [t \in Threads |-> {}]
  /\ found = [t \in Threads |-> NoItem]
  /\ item = [t \in Threads |-> NoItem]
  /\ updArg = [t \in Threads |-> NoUpdate.update]
  /\ iconArg = [t \in Threads |-> ""]
  /\ res = [t \in Threads |-> "none"]
  /\ calls = 0
  /\ regMenu = MenuA
  /\ lastStorer = NoThread
  /\ startedAfter = [t \in Threads |-> {}]
  /\ callArg = [t \in Threads |-> NoCall]
  /\ poisoned = FALSE
  /\ nSetIcon = 0
  /\ arcs = [a \in {1} |-> get_menu_ids(EmptyMap, MenuA)]
  /\ handles = <<[ids |-> 1]>>
  /\ cNative = MenuA
  /\ cSetter = 0
  /\ cLast = NoCloneCall

\* no cli_matches invocation yet
InitCliIdle ==
  /\ cliEnabled = TRUE
  /\ cliConfig = NoCli
  /\ cliArgs = <<>>
  /\ cliResponses = <<>>

\* no Notification shown yet
InitNotifyIdle ==
  /\ nPlatform = "other"
  /\ nExe = [ok |-> FALSE, dir |-> <<>>]
  /\ nNotif = NewNotification
  /\ nPc = "new"
  /\ nBuilt = NewNative
  /\ nTask = "none"
  /\ nSpawned = 0
  /\ nRes = "none"

Init == InitTray /\ InitCliIdle /\ InitNotifyIdle

----------------------------------------------------------------------------
(* SystemTrayHandle::set_menu *)

\* SetMenuCall taking the Registry lock before the native call
SetMenuCall_LockFirst(t, menu) ==
  /\ pc[t] = "idle"
  /\ calls < MaxCalls
  /\ mutex = NoThread
  /\ mutex' = t
  /\ calls' = calls + 1
  /\ pc' = [pc EXCEPT ![t] = "sm_native"]
  /\ menuArg' = [menuArg EXCEPT ![t] = menu]
  /\ localIds' = [localIds EXCEPT ![t] = get_menu_ids(EmptyMap, menu)]
  /\ res' = [res EXCEPT ![t] = "none"]
  /\ UNCHANGED <<ids, native, trayIcon, lastUpdate, nUpdates, idArg, seen,
                 found, item, updArg, iconArg, regMenu, lastStorer, startedAfter,
                 callArg, poisoned, nSetIcon, cloneVars, cliVars, notifyVars>>

\* let mut ids = HashMap::new(); get_menu_ids(&mut ids, &menu);
SetMenuCall(t, menu) ==
  /\ pc[t] = "idle"
  /\ calls < MaxCalls
  /\ calls' = calls + 1
  /\ pc' = [pc EXCEPT ![t] = "sm_native"]
  /\ menuArg' = [menuArg EXCEPT ![t] = menu]
  /\ localIds' = [localIds EXCEPT ![t] = get_menu_ids(EmptyMap, menu)]
  /\ res' = [res EXCEPT ![t] = "none"]
  /\ UNCHANGED <<ids, mutex, native, trayIcon, lastUpdate, nUpdates, idArg, seen,
                 found, item, updArg, iconArg, regMenu, lastStorer, startedAfter,
                 callArg, poisoned, nSetIcon, cloneVars, cliVars, notifyVars>>

\* self.inner.set_menu(menu) returned Ok: the native tray now shows `menu`
SetMenuNativeOk(t) ==
  /\ pc[t] = "sm_native"
  /\ native' = menuArg[t]
  /\ pc' = [pc EXCEPT ![t] = "sm_lock"]
  /\ UNCHANGED <<ids, mutex, trayIcon, lastUpdate, nUpdates, menuArg, localIds,
                 idArg, seen, found, item, updArg, iconArg, res, calls, regMenu,
                 lastStorer, startedAfter,
                 callArg, poisoned, nSetIcon, cloneVars, cliVars, notifyVars>>

\* SetMenuNativeErr with the Registry replaced before the native outcome is known
SetMenuNativeErr_StoresFirst(t) ==
  /\ pc[t] = "sm_native"
  /\ pc' = [pc EXCEPT ![t] = "idle"]
  /\ res' = [res EXCEPT ![t] = "sm_err"]
  /\ ids' = localIds[t]
  /\ localIds' = [localIds EXCEPT ![t] = EmptyMap]
  /\ UNCHANGED <<mutex, native, trayIcon, lastUpdate, nUpdates, menuArg,
                 idArg, seen, found, item, updArg, iconArg, calls, regMenu,
                 lastStorer, startedAfter,
                 callArg, poisoned, nSetIcon, cloneVars, cliVars, notifyVars>>

\* self.inner.set_menu(menu)? returned Err: set_menu returns it at once
SetMenuNativeErr(t) ==
  /\ pc[t] = "sm_native"
  /\ pc' = [pc EXCEPT ![t] = "idle"]
  /\ res' = [res EXCEPT ![t] = "sm_err"]
  /\ localIds' = [localIds EXCEPT ![t] = EmptyMap]
  /\ UNCHANGED <<ids, mutex, native, trayIcon, lastUpdate, nUpdates, menuArg,
                 idArg, seen, found, item, updArg, iconArg, calls, regMenu,
                 lastStorer, startedAfter,
                 callArg, poisoned, nSetIcon, cloneVars, cliVars, notifyVars>>

\* SetMenuLock without mutual exclusion: the store does not wait for a reader
SetMenuLock_NoExclusion(t) ==
  /\ pc[t] = "sm_lock"
  /\ pc' = [pc EXCEPT ![t] = "sm_store"]
  /\ UNCHANGED <<ids, mutex, native, trayIcon, lastUpdate, nUpdates, menuArg, localIds,
                 idArg, seen, found, item, updArg, iconArg, res, calls, regMenu,
                 lastStorer, startedAfter,
                 callArg, poisoned, nSetIcon, cloneVars, cliVars, notifyVars>>

\* self.ids.lock().unwrap(): unwrap panics when the Mutex is poisoned
SetMenuLock(t) ==
  /\ pc[t] = "sm_lock"
  /\ mutex = NoThread
  /\ IF poisoned
       THEN /\ pc' = [pc EXCEPT ![t] = "panicked"]
            /\ res' = [res EXCEPT ![t] = "lock_panic"]
            /\ UNCHANGED mutex
       ELSE /\ mutex' = t
            /\ pc' = [pc EXCEPT ![t] = "sm_store"]
            /\ UNCHANGED res
  /\ UNCHANGED <<ids, native, trayIcon, lastUpdate, nUpdates, menuArg, localIds,
                 idArg, seen, found, item, updArg, iconArg, calls, regMenu,
                 lastStorer, startedAfter,
                 callArg, poisoned, nSetIcon, cloneVars, cliVars, notifyVars>>

\* SetMenuStore assigning to a copy of the map: the shared Registry keeps its value
SetMenuStore_ToCopy(t) ==
  /\ pc[t] = "sm_store"
  /\ mutex' = NoThread
  /\ regMenu' = menuArg[t]
  /\ lastStorer' = t
  /\ pc' = [pc EXCEPT ![t] = "sm_ret"]
  /\ localIds' = [localIds EXCEPT ![t] = EmptyMap]
  /\ UNCHANGED <<ids, native, trayIcon, lastUpdate, nUpdates, menuArg, idArg, seen,
                 found, item, updArg, iconArg, res, calls, startedAfter,
                 callArg, poisoned, nSetIcon, cloneVars, cliVars, notifyVars>>

\* SetMenuStore updating the held map entry by entry: an entry already present
\* is removed instead of kept
SetMenuStore_Toggle(t) ==
  /\ pc[t] = "sm_store"
  /\ ids' = [raw \in (DOMAIN ids \ DOMAIN localIds[t]) \cup (DOMAIN localIds[t] \ DOMAIN ids) |->
               IF raw \in DOMAIN ids THEN ids[raw] ELSE localIds[t][raw]]
  /\ mutex' = NoThread
  /\ regMenu' = menuArg[t]
  /\ lastStorer' = t
  /\ pc' = [pc EXCEPT ![t] = "sm_ret"]
  /\ localIds' = [localIds EXCEPT ![t] = EmptyMap]
  /\ UNCHANGED <<native, trayIcon, lastUpdate, nUpdates, menuArg, idArg, seen,
                 found, item, updArg, iconArg, res, calls, startedAfter,
                 callArg, poisoned, nSetIcon, cloneVars, cliVars, notifyVars>>

\* SetMenuStore invalidating the item handles minted from the old Registry
SetMenuStore_InvalidatesItems(t) ==
  /\ pc[t] = "sm_store"
  /\ ids' = localIds[t]
  /\ item' = [u \in Threads |-> IF item[u] \in DOMAIN localIds[t] THEN item[u] ELSE NoItem]
  /\ mutex' = NoThread
  /\ regMenu' = menuArg[t]
  /\ lastStorer' = t
  /\ pc' = [pc EXCEPT ![t] = "sm_ret"]
  /\ localIds' = [localIds EXCEPT ![t] = EmptyMap]
  /\ UNCHANGED <<native, trayIcon, lastUpdate, nUpdates, menuArg, idArg, seen,
                 found, updArg, iconArg, res, calls, startedAfter,
                 callArg, poisoned, nSetIcon, cloneVars, cliVars, notifyVars>>

\* *guard = ids; the guard is dropped at the end of the statement
SetMenuStore(t) ==
  /\ pc[t] = "sm_store"
  /\ ids' = localIds[t]
  /\ mutex' = NoThread
  /\ regMenu' = menuArg[t]
  /\ lastStorer' = t
  /\ pc' = [pc EXCEPT ![t] = "sm_ret"]
  /\ localIds' = [localIds EXCEPT ![t] = EmptyMap]
  /\ UNCHANGED <<native, trayIcon, lastUpdate, nUpdates, menuArg, idArg, seen,
                 found, item, updArg, iconArg, res, calls, startedAfter,
                 callArg, poisoned, nSetIcon, cloneVars, cliVars, notifyVars>>

\* Ok(())
SetMenuReturn(t) ==
  /\ pc[t] = "sm_ret"
  /\ pc' = [pc EXCEPT ![t] = "idle"]
  /\ res' = [res EXCEPT ![t] = "sm_ok"]
  /\ UNCHANGED <<ids, mutex, native, trayIcon, lastUpdate, nUpdates, menuArg,
                 localIds, idArg, seen, found, item, updArg, iconArg, calls,
                 regMenu, lastStorer, startedAfter,
                 callArg, poisoned, nSetIcon, cloneVars, cliVars, notifyVars>>

----------------------------------------------------------------------------
(* SystemTrayHandle::get_item *)

\* the handles whose pair satisfies `item_id == id`
Matches(map, id) == {raw \in DOMAIN map : map[raw] = id}

\* the handles the running loop has not visited yet (HashMap::iter yields each
\* pair once, in an order the caller cannot rely on)
Unvisited(t) == DOMAIN ids \ {p[1] : p \in seen[t]}

GetItemCall(t, id) ==
  /\ pc[t] = "idle"
  /\ calls < MaxCalls
  /\ calls' = calls + 1
  /\ pc' = [pc EXCEPT ![t] = "gi_lock"]
  /\ idArg' = [idArg EXCEPT ![t] = id]
  /\ res' = [res EXCEPT ![t] = "none"]
  /\ startedAfter' = [startedAfter EXCEPT ![t] = {u \in Threads : res[u] = "sm_ok"}]
  /\ UNCHANGED <<ids, mutex, native, trayIcon, lastUpdate, nUpdates, menuArg,
                 localIds, seen, found, item, updArg, iconArg, regMenu, lastStorer,
                 callArg, poisoned, nSetIcon, cloneVars, cliVars, notifyVars>>

\* self.ids.lock().unwrap(): the guard is a temporary of the `for` head and
\* lives until the loop is left; unwrap panics when the Mutex is poisoned
GetItemLock(t) ==
  /\ pc[t] = "gi_lock"
  /\ mutex = NoThread
  /\ IF poisoned
       THEN /\ pc' = [pc EXCEPT ![t] = "panicked"]
            /\ res' = [res EXCEPT ![t] = "lock_panic"]
            /\ UNCHANGED mutex
       ELSE /\ mutex' = t
            /\ pc' = [pc EXCEPT ![t] = "gi_scan"]
            /\ UNCHANGED res
  /\ seen' = [seen EXCEPT ![t] = {}]
  /\ UNCHANGED <<ids, native, trayIcon, lastUpdate, nUpdates, menuArg, localIds,
                 idArg, found, item, updArg, iconArg, calls, regMenu,
                 lastStorer, startedAfter,
                 callArg, poisoned, nSetIcon, cloneVars, cliVars, notifyVars>>

\* one iteration whose pair does not match
GetItemSkip(t) ==
  /\ pc[t] = "gi_scan"
  /\ \E raw \in Unvisited(t) :
       /\ raw \notin Matches(ids, idArg[t])
       /\ seen' = [seen EXCEPT ![t] = @ \cup {<<raw, ids[raw]>>}]
  /\ UNCHANGED <<ids, mutex, native, trayIcon, lastUpdate, nUpdates, pc, menuArg,
                 localIds, idArg, found, item, updArg, iconArg, res, calls,
                 regMenu, lastStorer, startedAfter,
                 callArg, poisoned, nSetIcon, cloneVars, cliVars, notifyVars>>

\* one iteration whose pair matches: the handle is built, starting with
\* self.inner.clone(), inside the loop
GetItemMatch(t) ==
  /\ pc[t] = "gi_scan"
  /\ \E raw \in Unvisited(t) :
       /\ raw \in Matches(ids, idArg[t])
       /\ seen' = [seen EXCEPT ![t] = @ \cup {<<raw, ids[raw]>>}]
       /\ found' = [found EXCEPT ![t] = raw]
  /\ pc' = [pc EXCEPT ![t] = "gi_clone"]
  /\ UNCHANGED <<ids, mutex, native, trayIcon, lastUpdate, nUpdates, menuArg,
                 localIds, idArg, item, updArg, iconArg, res, calls, regMenu,
                 lastStorer, startedAfter,
                 callArg, poisoned, nSetIcon, cloneVars, cliVars, notifyVars>>

\* GetItemReturn leaking the guard: the handle is returned, the lock stays held
GetItemReturn_KeepsLock(t) ==
  /\ pc[t] = "gi_clone"
  /\ item' = [item EXCEPT ![t] = found[t]]
  /\ pc' = [pc EXCEPT ![t] = "idle"]
  /\ res' = [res EXCEPT ![t] = "gi_ok"]
  /\ seen' = [seen EXCEPT ![t] = {}]
  /\ found' = [found EXCEPT ![t] = NoItem]
  /\ startedAfter' = [startedAfter EXCEPT ![t] = {}]
  /\ UNCHANGED <<ids, mutex, native, trayIcon, lastUpdate, nUpdates, menuArg, localIds,
                 idArg, updArg, iconArg, calls, regMenu, lastStorer,
                 callArg, poisoned, nSetIcon, cloneVars, cliVars, notifyVars>>

\* return SystemTrayMenuItemHandle { id: *raw, tray_handler }: the guard is
\* dropped on the way out
GetItemReturn(t) ==
  /\ pc[t] = "gi_clone"
  /\ item' = [item EXCEPT ![t] = found[t]]
  /\ mutex' = NoThread
  /\ pc' = [pc EXCEPT ![t] = "idle"]
  /\ res' = [res EXCEPT ![t] = "gi_ok"]
  /\ seen' = [seen EXCEPT ![t] = {}]
  /\ found' = [found EXCEPT ![t] = NoItem]
  /\ startedAfter' = [startedAfter EXCEPT ![t] = {}]
  /\ UNCHANGED <<ids, native, trayIcon, lastUpdate, nUpdates, menuArg, localIds,
                 idArg, updArg, iconArg, calls, regMenu, lastStorer,
                 callArg, poisoned, nSetIcon, cloneVars, cliVars, notifyVars>>

\* GetItemExhausted leaving the loop before every pair was visited
GetItemExhausted_Early(t) ==
  /\ pc[t] = "gi_scan"
  /\ seen[t] # {}
  /\ mutex' = NoThread
  /\ pc' = [pc EXCEPT ![t] = "gi_panic"]
  /\ seen' = [seen EXCEPT ![t] = {}]
  /\ startedAfter' = [startedAfter EXCEPT ![t] = {}]
  /\ UNCHANGED <<ids, native, trayIcon, lastUpdate, nUpdates, menuArg, localIds,
                 idArg, found, item, updArg, iconArg, res, calls, regMenu,
                 lastStorer,
                 callArg, poisoned, nSetIcon, cloneVars, cliVars, notifyVars>>

\* GetItemExhausted panicking from inside the loop, the guard still alive
GetItemExhausted_PanicsInLoop(t) ==
  /\ pc[t] = "gi_scan"
  /\ Unvisited(t) = {}
  /\ pc' = [pc EXCEPT ![t] = "gi_panic"]
  /\ seen' = [seen EXCEPT ![t] = {}]
  /\ startedAfter' = [startedAfter EXCEPT ![t] = {}]
  /\ UNCHANGED <<ids, mutex, native, trayIcon, lastUpdate, nUpdates, menuArg, localIds,
                 idArg, found, item, updArg, iconArg, res, calls, regMenu,
                 lastStorer,
                 callArg, poisoned, nSetIcon, cloneVars, cliVars, notifyVars>>

\* the iterator is exhausted: the loop ends and the guard is dropped
GetItemExhausted(t) ==
  /\ pc[t] = "gi_scan"
  /\ Unvisited(t) = {}
  /\ mutex' = NoThread
  /\ pc' = [pc EXCEPT ![t] = "gi_panic"]
  /\ seen' = [seen EXCEPT ![t] = {}]
  /\ startedAfter' = [startedAfter EXCEPT ![t] = {}]
  /\ UNCHANGED <<ids, native, trayIcon, lastUpdate, nUpdates, menuArg, localIds,
                 idArg, found, item, updArg, iconArg, res, calls, regMenu,
                 lastStorer,
                 callArg, poisoned, nSetIcon, cloneVars, cliVars, notifyVars>>

\* panic!("item id not found"): the calling thread unwinds; a guard still held
\* would be dropped by the unwinding and would poison the Mutex
GetItemPanic(t) ==
  /\ pc[t] = "gi_panic"
  /\ pc' = [pc EXCEPT ![t] = "panicked"]
  /\ res' = [res EXCEPT ![t] = "gi_panic"]
  /\ poisoned' = (poisoned \/ mutex = t)
  /\ mutex' = (IF mutex = t THEN NoThread ELSE mutex)
  /\ UNCHANGED <<ids, native, trayIcon, lastUpdate, nUpdates, menuArg,
                 localIds, idArg, seen, found, item, updArg, iconArg, calls,
                 regMenu, lastStorer, startedAfter,
                 callArg, nSetIcon, cloneVars, cliVars, notifyVars>>

----------------------------------------------------------------------------
(* SystemTrayHandle::set_icon *)

SetIconCall(t, icon) ==
  /\ pc[t] = "idle"
  /\ calls < MaxCalls
  /\ calls' = calls + 1
  /\ pc' = [pc EXCEPT ![t] = "si_native"]
  /\ iconArg' = [iconArg EXCEPT ![t] = icon]
  /\ res' = [res EXCEPT ![t] = "none"]
  /\ UNCHANGED <<ids, mutex, native, trayIcon, lastUpdate, nUpdates, menuArg,
                 localIds, idArg, seen, found, item, updArg, regMenu, lastStorer, startedAfter,
                 callArg, poisoned, nSetIcon, cloneVars, cliVars, notifyVars>>

\* self.inner.set_icon(icon) returned Ok
SetIconNativeOk(t) ==
  /\ pc[t] = "si_native"
  /\ trayIcon' = iconArg[t]
  /\ pc' = [pc EXCEPT ![t] = "idle"]
  /\ res' = [res EXCEPT ![t] = "si_ok"]
  /\ nSetIcon' = nSetIcon + 1
  /\ UNCHANGED <<ids, mutex, native, lastUpdate, nUpdates, menuArg, localIds,
                 idArg, seen, found, item, updArg, iconArg, calls, regMenu,
                 lastStorer, startedAfter,
                 callArg, poisoned, cloneVars, cliVars, notifyVars>>

\* set_icon dropping the native error and reporting success
SetIconNativeErr_Swallowed(t) ==
  /\ pc[t] = "si_native"
  /\ pc' = [pc EXCEPT ![t] = "idle"]
  /\ res' = [res EXCEPT ![t] = "si_ok"]
  /\ nSetIcon' = nSetIcon + 1
  /\ UNCHANGED <<ids, mutex, native, trayIcon, lastUpdate, nUpdates, menuArg,
                 localIds, idArg, seen, found, item, updArg, iconArg, calls,
                 regMenu, lastStorer, startedAfter,
                 callArg, poisoned, cloneVars, cliVars, notifyVars>>

\* self.inner.set_icon(icon) returned Err
SetIconNativeErr(t) ==
  /\ pc[t] = "si_native"
  /\ pc' = [pc EXCEPT ![t] = "idle"]
  /\ res' = [res EXCEPT ![t] = "si_err"]
  /\ nSetIcon' = nSetIcon + 1
  /\ UNCHANGED <<ids, mutex, native, trayIcon, lastUpdate, nUpdates, menuArg,
                 localIds, idArg, seen, found, item, updArg, iconArg, calls,
                 regMenu, lastStorer, startedAfter,
                 callArg, poisoned, cloneVars, cliVars, notifyVars>>

----------------------------------------------------------------------------
(* SystemTrayMenuItemHandle::set_enabled, set_title, set_selected *)

ItemUpdateCall(t, call) ==
  /\ pc[t] = "idle"
  /\ item[t] # NoItem
  /\ calls < MaxCalls
  /\ calls' = calls + 1
  /\ pc' = [pc EXCEPT ![t] = "ui_native"]
  /\ callArg' = [callArg EXCEPT ![t] = call]
  /\ updArg' = [updArg EXCEPT ![t] = MenuUpdateOf(call)]
  /\ res' = [res EXCEPT ![t] = "none"]
  /\ UNCHANGED <<ids, mutex, native, trayIcon, lastUpdate, nUpdates, menuArg,
                 localIds, idArg, seen, found, item, iconArg, regMenu, lastStorer, startedAfter, poisoned, nSetIcon, cloneVars, cliVars, notifyVars>>

\* what the native tray receives: update_item(self.id, update)
UpdateItemRequest(t, ok) == [id |-> item[t], update |-> updArg[t], ok |-> ok]

\* self.tray_handler.update_item(self.id, ..) returned Ok
ItemUpdateNativeOk(t) ==
  /\ pc[t] = "ui_native"
  /\ lastUpdate' = UpdateItemRequest(t, TRUE)
  /\ nUpdates' = nUpdates + 1
  /\ pc' = [pc EXCEPT ![t] = "idle"]
  /\ res' = [res EXCEPT ![t] = "ui_ok"]
  /\ UNCHANGED <<ids, mutex, native, trayIcon, menuArg, localIds, idArg, seen,
                 found, item, updArg, iconArg, calls, regMenu, lastStorer, startedAfter,
                 callArg, poisoned, nSetIcon, cloneVars, cliVars, notifyVars>>

\* self.tray_handler.update_item(self.id, ..) returned Err
ItemUpdateNativeErr(t) ==
  /\ pc[t] = "ui_native"
  /\ lastUpdate' = UpdateItemRequest(t, FALSE)
  /\ nUpdates' = nUpdates + 1
  /\ pc' = [pc EXCEPT ![t] = "idle"]
  /\ res' = [res EXCEPT ![t] = "ui_err"]
  /\ UNCHANGED <<ids, mutex, native, trayIcon, menuArg, localIds, idArg, seen,
                 found, item, updArg, iconArg, calls, regMenu, lastStorer, startedAfter,
                 callArg, poisoned, nSetIcon, cloneVars, cliVars, notifyVars>>

----------------------------------------------------------------------------
(* Specifications *)

\* any number of threads calling through clones of one handle
Next ==
  \E t \in Threads :
    \/ \E menu \in Menus : SetMenuCall(t, menu)
    \/ SetMenuNativeOk(t)
    \/ SetMenuNativeErr(t)
    \/ SetMenuLock(t)
    \/ SetMenuStore(t)
    \/ SetMenuReturn(t)
    \/ \E id \in Ids : GetItemCall(t, id)
    \/ GetItemLock(t)
    \/ GetItemSkip(t)
    \/ GetItemMatch(t)
    \/ GetItemReturn(t)
    \/ GetItemExhausted(t)
    \/ GetItemPanic(t)
    \/ \E icon \in Icons : SetIconCall(t, icon)
    \/ SetIconNativeOk(t)
    \/ SetIconNativeErr(t)
    \/ \E call \in ItemCalls : ItemUpdateCall(t, call)
    \/ ItemUpdateNativeOk(t)
    \/ ItemUpdateNativeErr(t)

Spec == Init /\ [][Next]_vars

\* one caller installs one generated tree, then looks up one identifier
NextTree ==
  \/ calls = 0 /\ \E menu \in TreeSet : SetMenuCall(1, menu)
  \/ SetMenuNativeOk(1)
  \/ SetMenuNativeErr(1)
  \/ SetMenuLock(1)
  \/ SetMenuStore(1)
  \/ SetMenuReturn(1)
  \/ calls = 1 /\ \E id \in Ids : GetItemCall(1, id)
  \/ GetItemLock(1)
  \/ GetItemSkip(1)
  \/ GetItemMatch(1)
  \/ GetItemReturn(1)
  \/ GetItemExhausted(1)
  \/ GetItemPanic(1)

SpecTree == Init /\ [][NextTree]_vars

\* upper bound on the number of calls started under SpecLive
MaxLiveCalls == 2

\* threads calling set_menu and get_item only
NextLive ==
  \E t \in Threads :
    \/ calls < MaxLiveCalls /\ \E menu \in Menus : SetMenuCall(t, menu)
    \/ SetMenuNativeOk(t)
    \/ SetMenuNativeErr(t)
    \/ SetMenuLock(t)
    \/ SetMenuStore(t)
    \/ SetMenuReturn(t)
    \/ calls < MaxLiveCalls /\ \E id \in Ids : GetItemCall(t, id)
    \/ GetItemLock(t)
    \/ GetItemSkip(t)
    \/ GetItemMatch(t)
    \/ GetItemReturn(t)
    \/ GetItemExhausted(t)
    \/ GetItemPanic(t)

\* the steps of a call of thread t that do not wait: the native set_menu
\* returns, and a running thread goes on
Running(t) ==
  \/ SetMenuNativeOk(t)
  \/ SetMenuNativeErr(t)
  \/ SetMenuStore(t)
  \/ SetMenuReturn(t)
  \/ GetItemSkip(t)
  \/ GetItemMatch(t)
  \/ GetItemReturn(t)
  \/ GetItemExhausted(t)
  \/ GetItemPanic(t)

\* lock(): a thread parked on the Mutex gets it once it is free often enough
Locking(t) == SetMenuLock(t) \/ GetItemLock(t)

SpecLive ==
  /\ Init
  /\ [][NextLive]_vars
  /\ \A t \in Threads : WF_vars(Running(t)) /\ SF_vars(Locking(t))

----------------------------------------------------------------------------
(* Clones of SystemTrayHandle, each call running to completion *)

\* Clone::clone allocating a Registry of its own, filled from the original
HandleClone_DeepCopy(i) ==
  /\ Len(handles) <= MaxClones
  /\ arcs' = [a \in DOMAIN arcs \cup {Len(handles) + 1} |->
               IF a \in DOMAIN arcs THEN arcs[a] ELSE arcs[handles[i].ids]]
  /\ handles' = Append(handles, [ids |-> Len(handles) + 1])
  /\ cLast' = [NoCloneCall EXCEPT !.op = "clone", !.via = i]
  /\ UNCHANGED <<trayVars, cliVars, notifyVars, cNative, cSetter>>

\* Clone::clone: `ids: self.ids.clone()` copies the Arc, not the map
HandleClone(i) ==
  /\ Len(handles) <= MaxClones
  /\ handles' = Append(handles, [ids |-> handles[i].ids])
  /\ cLast' = [NoCloneCall EXCEPT !.op = "clone", !.via = i]
  /\ UNCHANGED <<trayVars, cliVars, notifyVars, arcs, cNative, cSetter>>

\* set_menu through handle i, the native set_menu succeeding
ViaSetMenuOk(i, menu) ==
  /\ cNative' = menu
  /\ arcs' = [arcs EXCEPT ![handles[i].ids] = get_menu_ids(EmptyMap, menu)]
  /\ cSetter' = i
  /\ cLast' = [NoCloneCall EXCEPT !.op = "set_menu", !.via = i]
  /\ UNCHANGED <<trayVars, cliVars, notifyVars, handles>>

\* set_menu through handle i, the native set_menu failing: `?` returns early
ViaSetMenuErr(i, menu) ==
  /\ cLast' = [NoCloneCall EXCEPT !.op = "set_menu", !.via = i, !.ok = FALSE]
  /\ UNCHANGED <<trayVars, cliVars, notifyVars, arcs, handles, cNative, cSetter>>

\* get_item through handle i returning a binding
ViaGetItemFound(i, id) ==
  /\ \E raw \in Matches(arcs[handles[i].ids], id) :
       cLast' = [NoCloneCall EXCEPT !.op = "get_item", !.via = i, !.id = id, !.out = raw]
  /\ UNCHANGED <<trayVars, cliVars, notifyVars, arcs, handles, cNative, cSetter>>

\* get_item through handle i panicking: the calling thread unwinds, the
\* handles held elsewhere stay usable
ViaGetItemPanic(i, id) ==
  /\ Matches(arcs[handles[i].ids], id) = {}
  /\ cLast' = [NoCloneCall EXCEPT !.op = "get_item", !.via = i, !.id = id, !.ok = FALSE]
  /\ UNCHANGED <<trayVars, cliVars, notifyVars, arcs, handles, cNative, cSetter>>

NextClone ==
  \E i \in DOMAIN handles :
    \/ HandleClone(i)
    \/ \E menu \in Menus : ViaSetMenuOk(i, menu)
    \/ \E menu \in Menus : ViaSetMenuErr(i, menu)
    \/ \E id \in Ids : ViaGetItemFound(i, id)
    \/ \E id \in Ids : ViaGetItemPanic(i, id)

SpecClone == Init /\ [][NextClone]_vars

----------------------------------------------------------------------------
(* Cmd::cli_matches, one invocation per step *)

InitCli ==
  /\ InitTray
  /\ InitNotifyIdle
  /\ cliEnabled \in BOOLEAN
  /\ cliConfig \in {NoCli} \cup CliSchemas
  /\ cliArgs \in ArgLists
  /\ cliResponses = <<>>

\* crate::api::cli::get_matches: the parsed matches, or the parser's error
get_matches(cli, args, parsed) ==
  IF parsed THEN [kind |-> "Ok", payload |-> <<cli>> \o args]
            ELSE [kind |-> "Err", payload |-> <<"ParseCli">>]

\* the handler a build without the `cli` capability gets
CliMatchesDisabled ==
  /\ Len(cliResponses) < MaxInvokes
  /\ ~cliEnabled
  /\ cliResponses' = Append(cliResponses, NotAllowlisted)
  /\ UNCHANGED <<trayVars, cloneVars, notifyVars, cliEnabled, cliConfig, cliArgs>>

\* cli_matches unwrapping the missing definition
CliMatchesNotSet_Unwraps ==
  /\ Len(cliResponses) < MaxInvokes
  /\ cliEnabled
  /\ cliConfig = NoCli
  /\ cliResponses' = Append(cliResponses, [kind |-> "Panic", payload |-> <<>>])
  /\ UNCHANGED <<trayVars, cloneVars, notifyVars, cliEnabled, cliConfig, cliArgs>>

\* cli_matches, else branch: context.config.tauri.cli is None
CliMatchesNotSet ==
  /\ Len(cliResponses) < MaxInvokes
  /\ cliEnabled
  /\ cliConfig = NoCli
  /\ cliResponses' = Append(cliResponses, NotAllowlisted)
  /\ UNCHANGED <<trayVars, cloneVars, notifyVars, cliEnabled, cliConfig, cliArgs>>

\* cli_matches, `if let Some(cli)` branch
CliMatchesSome(parsed) ==
  /\ Len(cliResponses) < MaxInvokes
  /\ cliEnabled
  /\ cliConfig # NoCli
  /\ cliResponses' = Append(cliResponses, get_matches(cliConfig, cliArgs, parsed))
  /\ UNCHANGED <<trayVars, cloneVars, notifyVars, cliEnabled, cliConfig, cliArgs>>

NextCli ==
  \/ CliMatchesDisabled
  \/ CliMatchesNotSet
  \/ \E parsed \in BOOLEAN : CliMatchesSome(parsed)

SpecCli == InitCli /\ [][NextCli]_vars

----------------------------------------------------------------------------
(* Notification: the builder, show() and the dispatch it spawns *)

InitNotify ==
  /\ InitTray
  /\ InitCliIdle
  /\ nPlatform \in {"windows", "other"}
  /\ nExe \in ExeOutcomes
  /\ nNotif = NewNotification
  /\ nPc = "new"
  /\ nBuilt = NewNative
  /\ nTask = "none"
  /\ nSpawned = 0
  /\ nRes = "none"

\* Notification::body
NotifBody(body) ==
  /\ nPc = "new"
  /\ nNotif' = [nNotif EXCEPT !.body = body]
  /\ UNCHANGED <<trayVars, cloneVars, cliVars, nPlatform, nExe, nPc, nBuilt, nTask,
                 nSpawned, nRes>>

\* Notification::title
NotifTitle(title) ==
  /\ nPc = "new"
  /\ nNotif' = [nNotif EXCEPT !.title = title]
  /\ UNCHANGED <<trayVars, cloneVars, cliVars, nPlatform, nExe, nPc, nBuilt, nTask,
                 nSpawned, nRes>>

\* Notification::icon
NotifIcon(icon) ==
  /\ nPc = "new"
  /\ nNotif' = [nNotif EXCEPT !.icon = icon]
  /\ UNCHANGED <<trayVars, cloneVars, cliVars, nPlatform, nExe, nPc, nBuilt, nTask,
                 nSpawned, nRes>>

\* show(): the notify_rust notification gets the fields that are Some
ShowBuild ==
  /\ nPc = "new"
  /\ nBuilt' = [body |-> nNotif.body, summary |-> nNotif.title, icon |-> nNotif.icon,
                app_id |-> None]
  /\ nPc' = IF nPlatform = "windows" THEN "exe" ELSE "spawn"
  /\ UNCHANGED <<trayVars, cloneVars, cliVars, nPlatform, nExe, nNotif, nTask, nSpawned,
                 nRes>>

\* #[cfg(windows)] current_exe()? failed: show returns the error
ShowExeErr ==
  /\ nPc = "exe"
  /\ ~nExe.ok
  /\ nRes' = "Err"
  /\ nPc' = "returned"
  /\ UNCHANGED <<trayVars, cloneVars, cliVars, nPlatform, nExe, nNotif, nBuilt, nTask,
                 nSpawned>>

\* #[cfg(windows)] the app id is set unless the executable runs from a build
\* directory
ShowExeOk ==
  /\ nPc = "exe"
  /\ nExe.ok
  /\ nBuilt' = IF EndsWith(nExe.dir, <<"target", "debug">>)
                   \/ EndsWith(nExe.dir, <<"target", "release">>)
                THEN nBuilt
                ELSE [nBuilt EXCEPT !.app_id = nNotif.identifier]
  /\ nPc' = "spawn"
  /\ UNCHANGED <<trayVars, cloneVars, cliVars, nPlatform, nExe, nNotif, nTask, nSpawned,
                 nRes>>

\* crate::async_runtime::spawn(async move { .. })
ShowSpawn ==
  /\ nPc = "spawn"
  /\ nTask' = "pending"
  /\ nSpawned' = nSpawned + 1
  /\ nPc' = "ret"
  /\ UNCHANGED <<trayVars, cloneVars, cliVars, nPlatform, nExe, nNotif, nBuilt, nRes>>

\* show() joining the dispatch and returning its failure
ShowReturn_Awaits ==
  /\ nPc = "ret"
  /\ nTask # "pending"
  /\ nRes' = IF nTask = "panicked" THEN "Err" ELSE "Ok"
  /\ nPc' = "returned"
  /\ UNCHANGED <<trayVars, cloneVars, cliVars, nPlatform, nExe, nNotif, nBuilt, nTask,
                 nSpawned>>

\* Ok(())
ShowReturn ==
  /\ nPc = "ret"
  /\ nRes' = "Ok"
  /\ nPc' = "returned"
  /\ UNCHANGED <<trayVars, cloneVars, cliVars, nPlatform, nExe, nNotif, nBuilt, nTask,
                 nSpawned>>

\* the spawned task: notification.show() returned Ok
DispatchShown ==
  /\ nTask = "pending"
  /\ nTask' = "shown"
  /\ UNCHANGED <<trayVars, cloneVars, cliVars, nPlatform, nExe, nNotif, nPc, nBuilt,
                 nSpawned, nRes>>

\* the spawned task: notification.show() returned Err and expect() panicked
\* inside the task
DispatchFailed ==
  /\ nTask = "pending"
  /\ nTask' = "panicked"
  /\ UNCHANGED <<trayVars, cloneVars, cliVars, nPlatform, nExe, nNotif, nPc, nBuilt,
                 nSpawned, nRes>>

NextNotify ==
  \/ NotifBody("body")
  \/ NotifTitle("title")
  \/ NotifIcon("icon")
  \/ ShowBuild
  \/ ShowExeErr
  \/ ShowExeOk
  \/ ShowSpawn
  \/ ShowReturn
  \/ DispatchShown
  \/ DispatchFailed

SpecNotify == InitNotify /\ [][NextNotify]_vars

----------------------------------------------------------------------------
(* Vocabulary of the properties *)

flatten(menu) == get_menu_ids(EmptyMap, menu)

Pairs(map) == {<<raw, map[raw]>> : raw \in DOMAIN map}

Scanning(t) == pc[t] \in {"gi_scan", "gi_clone"}

SetMenuInFlight(t) == pc[t] \in {"sm_native", "sm_lock", "sm_store", "sm_ret"}

\* the leaf custom items of a menu tree, in declared order, depth first
RECURSIVE LeafSeq(_)
LeafSeq(items) ==
  IF items = <<>> THEN <<>>
  ELSE LET entry == Head(items)
           here == IF entry.kind = "CustomItem" THEN <<entry>>
                   ELSE IF entry.kind = "Submenu" THEN LeafSeq(entry.inner)
                   ELSE <<>>
       IN here \o LeafSeq(Tail(items))

LeafPairs(menu) == {<<LeafSeq(menu)[i].id, LeafSeq(menu)[i].id_str>> : i \in DOMAIN LeafSeq(menu)}

LeafHandles(menu) == {LeafSeq(menu)[i].id : i \in DOMAIN LeafSeq(menu)}

DistinctHandles(menu) ==
  \A i, j \in DOMAIN LeafSeq(menu) : i # j => LeafSeq(menu)[i].id # LeafSeq(menu)[j].id

DistinctIds(menu) ==
  \A i, j \in DOMAIN LeafSeq(menu) : i # j => LeafSeq(menu)[i].id_str # LeafSeq(menu)[j].id_str

\* the number of submenus around the deepest leaf of a menu tree
RECURSIVE LeafDepth(_)
LeafDepth(items) ==
  IF items = <<>> THEN 0
  ELSE LET entry == Head(items)
           here == IF entry.kind = "Submenu" /\ LeafSeq(entry.inner) # <<>>
                   THEN 1 + LeafDepth(entry.inner) ELSE 0
           rest == LeafDepth(Tail(items))
       IN IF here > rest THEN here ELSE rest

GetItemDone(t) == res[t] = "gi_ok" \/ pc[t] \in {"gi_panic", "panicked"}

----------------------------------------------------------------------------
(* Properties *)

\* C1: when the native set_menu fails, set_menu returns the error and neither step
\* of the failed call changes the Registry or the installed menu, so every
\* identifier resolves to the same handles as before the call
C1_FailedSetMenuKeepsRegistry ==
  [][\A t \in Threads :
       /\ (pc[t] = "idle" /\ pc'[t] = "sm_native") => (ids' = ids /\ native' = native)
       /\ (pc[t] = "sm_native" /\ pc'[t] = "idle") =>
            /\ res'[t] = "sm_err"
            /\ ids' = ids
            /\ native' = native
            /\ \A id \in Ids : Matches(ids', id) = Matches(ids, id)]_vars

\* set_menu(MenuB) has failed and a get_item("a"), an identifier of the old menu
\* only, is resolving to the old handle 1
C1_Witness ==
  \E t, u \in Threads :
    /\ res[t] = "sm_err" /\ menuArg[t] = MenuB
    /\ Matches(flatten(MenuB), "a") = {}
    /\ pc[u] = "gi_clone" /\ idArg[u] = "a" /\ found[u] = 1
    /\ ids = flatten(MenuA)

\* C2: the pairs a get_item has visited, and the Registry it is visiting, are
\* those of one whole menu: the one last stored, which is the old or the new
\* menu of any set_menu in flight
C2_ScanSeesOneWholeRegistry ==
  \A t \in Threads :
    Scanning(t) =>
      /\ ids = flatten(regMenu)
      /\ seen[t] \subseteq Pairs(flatten(regMenu))
      /\ regMenu \in Menus

\* a get_item has visited a pair while a set_menu of another menu is in flight
C2_Witness ==
  \E t, u \in Threads :
    /\ pc[t] = "gi_scan" /\ seen[t] # {}
    /\ pc[u] = "sm_lock" /\ menuArg[u] # regMenu

\* C3 as stated: a get_item that starts after set_menu(T) returned Ok scans
\* flatten(T), whatever the other callers do
C3_Original ==
  \A t, u \in Threads :
    (Scanning(t) /\ u \in startedAfter[t] /\ (u = t \/ res[u] = "sm_ok")) =>
      ids = flatten(menuArg[u])

\* C3 amended: a get_item that starts after set_menu(T) returned Ok scans
\* flatten(T) as long as that set_menu is still the last one to have replaced
\* the Registry
C3_AfterOkSeesNewUnlessReplaced ==
  \A t, u \in Threads :
    (Scanning(t) /\ u \in startedAfter[t] /\ (u = t \/ res[u] = "sm_ok")
       /\ lastStorer = u) =>
      /\ ids = flatten(menuArg[u])
      /\ seen[t] \subseteq Pairs(flatten(menuArg[u]))

\* thread u's set_menu(MenuB) returned Ok, then thread t's get_item started and
\* is scanning the Registry of MenuB
C3_Witness ==
  \E t, u \in Threads :
    /\ t # u /\ Scanning(t) /\ u \in startedAfter[t]
    /\ res[u] = "sm_ok" /\ menuArg[u] = MenuB /\ lastStorer = u
    /\ seen[t] # {}

\* C4: whenever no set_menu is in flight, the Registry is the flattening of the
\* menu installed in the native tray
C4_RegistryIsInstalledMenu ==
  (\A t \in Threads : ~SetMenuInFlight(t)) => ids = flatten(native)

\* C5: get_item leaves its loop by panicking only when no pair of the Registry
\* matches the identifier, and whenever a pair matches it returns a handle bound
\* to a matching pair
C5_PanicIffNoMatch ==
  [][\A t \in Threads :
       /\ (pc[t] = "gi_scan" /\ pc'[t] = "gi_panic") => Matches(ids, idArg[t]) = {}
       /\ (pc[t] = "gi_scan" /\ pc'[t] = "gi_clone") =>
            found'[t] \in Matches(ids, idArg[t])
       /\ (pc[t] = "gi_clone" /\ pc'[t] # "gi_clone") =>
            (res'[t] = "gi_ok" /\ item'[t] = found[t] /\ pc'[t] = "idle")
       /\ (pc[t] = "gi_panic" /\ pc'[t] # "gi_panic") =>
            (res'[t] = "gi_panic" /\ item'[t] = item[t] /\ pc'[t] = "panicked")]_vars

\* one get_item has panicked on an identifier the Registry lacks and another has
\* returned a handle
C5_Witness ==
  \E t, u \in Threads :
    /\ res[t] = "gi_panic" /\ Matches(ids, idArg[t]) = {}
    /\ res[u] = "gi_ok" /\ item[u] \in Matches(ids, idArg[u])

\* C6 as stated: the map built by set_menu has exactly one entry per leaf custom
\* item of the tree, and none for anything else
C6_Original ==
  \A t \in Threads :
    pc[t] = "sm_native" =>
      /\ Cardinality(DOMAIN localIds[t]) = Len(LeafSeq(menuArg[t]))
      /\ DOMAIN localIds[t] \subseteq LeafHandles(menuArg[t])

\* C6 amended: the map built by set_menu has exactly one entry per distinct
\* handle carried by a leaf custom item, each holding the identifier of a leaf
\* with that handle, and none for separators or submenu nodes; when the leaves'
\* handles are pairwise distinct that is exactly one entry per leaf
C6_OneEntryPerLeafHandle ==
  \A t \in Threads :
    pc[t] = "sm_native" =>
      /\ DOMAIN localIds[t] = LeafHandles(menuArg[t])
      /\ Pairs(localIds[t]) \subseteq LeafPairs(menuArg[t])
      /\ DistinctHandles(menuArg[t]) =>
           /\ Cardinality(DOMAIN localIds[t]) = Len(LeafSeq(menuArg[t]))
           /\ Pairs(localIds[t]) = LeafPairs(menuArg[t])

\* set_menu has flattened a tree with a leaf, a separator and a submenu holding a
\* second leaf into two entries
C6_Witness ==
  /\ pc[1] = "sm_native"
  /\ menuArg[1] = <<CustomItem(1, "a"), NativeItem, Submenu(<<CustomItem(2, "b")>>)>>
  /\ Pairs(localIds[1]) = {<<1, "a">>, <<2, "b">>}

\* C7 as stated: with the leaf identifiers of the installed tree pairwise
\* distinct, a finished get_item for a leaf's identifier has returned a handle
\* bound to that leaf's Numeric Handle
C7_Original ==
  \A t \in Threads :
    (GetItemDone(t) /\ ids = flatten(native) /\ DistinctIds(native)) =>
      \A i \in DOMAIN LeafSeq(native) :
        LeafSeq(native)[i].id_str = idArg[t] =>
          (res[t] = "gi_ok" /\ item[t] = LeafSeq(native)[i].id)

\* C7 amended: the same, for installed trees whose leaf identifiers and leaf
\* Numeric Handles are both pairwise distinct
C7_LeafLookupAtAnyDepth ==
  \A t \in Threads :
    (GetItemDone(t) /\ ids = flatten(native) /\ DistinctIds(native)
       /\ DistinctHandles(native)) =>
      \A i \in DOMAIN LeafSeq(native) :
        LeafSeq(native)[i].id_str = idArg[t] =>
          (res[t] = "gi_ok" /\ item[t] = LeafSeq(native)[i].id)

\* get_item("b") has returned handle 2 for a leaf nested three submenus deep
C7_Witness ==
  /\ native = <<Submenu(<<Submenu(<<Submenu(<<CustomItem(2, "b")>>)>>)>>)>>
  /\ LeafDepth(native) = 3
  /\ ids = flatten(native)
  /\ res[1] = "gi_ok" /\ idArg[1] = "b" /\ item[1] = 2

\* C8 as stated: a thread inside a call into the native tray binding (set_menu,
\* set_icon, update_item, or the clone made by get_item) does not hold the mutex
C8_Original ==
  \A t \in Threads :
    pc[t] \in {"sm_native", "si_native", "ui_native", "gi_clone"} => mutex # t

\* C8 amended: a thread inside the native set_menu, set_icon or update_item does
\* not hold the mutex; the mutex is held exactly during the scan of get_item,
\* which on a match includes the clone of the binding, and during the
\* replacement in set_menu
C8_LockOnlyForScanAndStore ==
  \A t \in Threads :
    /\ pc[t] \in {"sm_native", "si_native", "ui_native"} => mutex # t
    /\ mutex = t <=> pc[t] \in {"gi_scan", "gi_clone", "sm_store"}

\* a thread is inside the native set_menu while another, holding the mutex, is
\* cloning the binding inside get_item
C8_Witness ==
  \E t, u \in Threads :
    /\ pc[t] = "sm_native" /\ mutex # t
    /\ pc[u] = "gi_clone" /\ mutex = u

\* C9: a set_menu that stores the flattening of the menu whose flattening is
\* already held (the same tree installed twice in succession) leaves the
\* Registry as it was, so every identifier resolves to the same handles
C9_SetMenuIdempotent ==
  [][\A t \in Threads :
       (pc[t] = "sm_store" /\ pc'[t] = "sm_ret" /\ menuArg[t] = regMenu) =>
         /\ ids' = ids
         /\ \A id \in Ids : Matches(ids', id) = Matches(ids, id)]_vars

\* set_menu(MenuB) has returned Ok in one thread and the other thread's
\* set_menu(MenuB), the only other call made, has just stored over it
C9_Witness ==
  \E t, u \in Threads :
    /\ res[u] = "sm_ok" /\ menuArg[u] = MenuB
    /\ pc[t] = "sm_ret" /\ menuArg[t] = MenuB /\ lastStorer = t
    /\ calls = 2
    /\ ids = flatten(MenuB) /\ Matches(ids, "c") = {3}

\* C10: an item handle keeps its Numeric Handle until its holder mints another
\* one, whatever set_menu calls happen; an update made through it reaches the
\* native tray once, with that handle and the caller's update, leaves the
\* Registry alone, and returns what the native tray answered
C10_StaleHandleStillForwards ==
  [][\A t \in Threads :
       /\ (item[t] # NoItem /\ ~(pc[t] = "gi_clone" /\ pc'[t] = "idle")) =>
            item'[t] = item[t]
       /\ (pc[t] = "ui_native" /\ pc'[t] = "idle") =>
            /\ lastUpdate'.id = item[t]
            /\ lastUpdate'.update = updArg[t]
            /\ nUpdates' = nUpdates + 1
            /\ res'[t] = (IF lastUpdate'.ok THEN "ui_ok" ELSE "ui_err")
            /\ ids' = ids]_vars

\* one caller minted a handle for "b" (handle 2), replaced the menu by MenuB,
\* which has no handle 2, and then sent an update through the stale handle
C10_Witness ==
  \E t \in Threads :
    /\ item[t] = 2 /\ res[t] \in {"ui_ok", "ui_err"}
    /\ \A u \in Threads \ {t} : pc[u] = "idle" /\ res[u] = "none"
    /\ regMenu = MenuB /\ ids = flatten(MenuB) /\ 2 \notin DOMAIN ids
    /\ lastUpdate.id = 2 /\ nUpdates = 1

\* C11: clones of a SystemTrayHandle share one Registry: every handle holds
\* the same allocation, that Registry is the flattening of the menu last
\* installed through any of them, and a lookup through any clone answers from
\* it (a binding of the installed menu, or a panic when it has none).
C11_ClonesShareRegistry ==
  /\ \A i \in DOMAIN handles :
       /\ handles[i].ids = handles[1].ids
       /\ arcs[handles[i].ids] = flatten(cNative)
  /\ cLast.op = "get_item" =>
       IF cLast.ok THEN cLast.out \in Matches(flatten(cNative), cLast.id)
                   ELSE Matches(flatten(cNative), cLast.id) = {}

\* a menu set through the second clone is found through the original handle
C11_Witness ==
  /\ Len(handles) = 3
  /\ cSetter = 2
  /\ cNative = MenuB
  /\ cLast = [NoCloneCall EXCEPT !.op = "get_item", !.via = 1, !.id = "c", !.out = 3]

\* C12: with no CLI definition configured, or without the CLI capability,
\* every cli_matches invocation answers with the not-allowlisted error value
\* (no panic, no matches), whatever the arguments and however many
\* invocations came before, and it changes nothing but the list of responses.
C12_NoCliIsNotAllowlistedError ==
  [][(~cliEnabled \/ cliConfig = NoCli) =>
       /\ cliResponses' = Append(cliResponses, NotAllowlisted)
       /\ UNCHANGED <<cliEnabled, cliConfig, cliArgs, trayVars, cloneVars, notifyVars>>]_vars

\* the capability is there, no definition is set, and a second invocation
\* has answered like the first
C12_Witness ==
  /\ cliEnabled
  /\ cliConfig = NoCli
  /\ cliArgs = <<"--verbose">>
  /\ cliResponses = <<NotAllowlisted, NotAllowlisted>>

\* the update variant each item method is documented to send
VariantOf(method) ==
  CASE method = "set_enabled" -> "SetEnabled"
    [] method = "set_title" -> "SetTitle"
    [] method = "set_selected" -> "SetSelected"

\* C13: set_enabled, set_title and set_selected each make exactly one
\* update_item call, with the handle's Numeric Handle, the variant of the
\* method and the caller's argument; the caller gets the native result, the
\* call ends there (no retry) and neither the Registry nor its lock is touched.
C13_OneUpdatePerItemCall ==
  [][\A t \in Threads :
       /\ (pc[t] = "idle" /\ pc'[t] = "ui_native") =>
            /\ nUpdates' = nUpdates /\ lastUpdate' = lastUpdate
            /\ ids' = ids /\ mutex' = mutex
       /\ pc[t] = "ui_native" => pc'[t] \in {"ui_native", "idle"}
       /\ (pc[t] = "ui_native" /\ pc'[t] = "idle") =>
            /\ nUpdates' = nUpdates + 1
            /\ lastUpdate'.id = item[t]
            /\ lastUpdate'.update.kind = VariantOf(callArg[t].method)
            /\ lastUpdate'.update.arg = callArg[t].arg
            /\ res'[t] = (IF lastUpdate'.ok THEN "ui_ok" ELSE "ui_err")
            /\ ids' = ids /\ mutex' = mutex]_vars

\* a set_title through a handle failed in the native tray: one update was
\* sent, and the caller holds the error
C13_Witness ==
  \E t \in Threads :
    /\ pc[t] = "idle" /\ res[t] = "ui_err"
    /\ callArg[t] = [method |-> "set_title", arg |-> "title"]
    /\ item[t] # NoItem
    /\ nUpdates = 1
    /\ lastUpdate = [id |-> item[t], update |-> [kind |-> "SetTitle", arg |-> "title"],
                     ok |-> FALSE]

\* C14: the Numeric Handle of a handle returned by get_item is present in the
\* menu installed in the native tray at the moment get_item returns, under
\* every interleaving with set_menu calls.
C14_ReturnedHandleIsInstalled ==
  [][\A t \in Threads :
       (pc[t] = "gi_clone" /\ pc'[t] = "idle") =>
         item'[t] \in DOMAIN flatten(native')]_vars

\* the position of the last leaf, in declared depth-first order, that carries
\* Numeric Handle raw
LastLeaf(menu, raw) ==
  CHOOSE i \in DOMAIN LeafSeq(menu) :
    /\ LeafSeq(menu)[i].id = raw
    /\ \A j \in DOMAIN LeafSeq(menu) : LeafSeq(menu)[j].id = raw => j <= i

\* C15: flattening is last-writer-wins: the map set_menu builds has one entry
\* per Numeric Handle carried by a leaf, and its identifier is that of the
\* last leaf with that handle in declared, depth-first order; a repeated handle
\* is flattened like any other tree (set_menu goes on to the native call).
C15_LastLeafWins ==
  \A t \in Threads :
    pc[t] = "sm_native" =>
      /\ DOMAIN localIds[t] = LeafHandles(menuArg[t])
      /\ \A raw \in DOMAIN localIds[t] :
           localIds[t][raw] = LeafSeq(menuArg[t])[LastLeaf(menuArg[t], raw)].id_str

\* handle 1 is carried by a top-level leaf "b" and, later in the tree, by a
\* leaf "a" inside a submenu: the entry for 1 holds "a"
C15_Witness ==
  /\ pc[1] = "sm_native"
  /\ menuArg[1] = <<CustomItem(1, "b"), Submenu(<<CustomItem(1, "a")>>)>>
  /\ localIds[1] = Insert(EmptyMap, 1, "a")

\* thread t is inside get_item
InGetItem(t) == pc[t] \in {"gi_lock", "gi_scan", "gi_clone", "gi_panic"}

\* C17: get_item only reads: none of its steps changes the Registry or the
\* installed menu; the lock is free of the caller when the handle is returned
\* and already when the panic is raised, so the Mutex is never poisoned and no
\* later lock() of another thread fails because of a failed lookup.
C17_GetItemReadOnly ==
  [][\A t \in Threads :
       /\ (InGetItem(t) /\ (pc'[t] # pc[t] \/ seen'[t] # seen[t])) =>
            ids' = ids /\ native' = native
       /\ (pc[t] = "gi_clone" /\ pc'[t] = "idle") => mutex' = NoThread
       /\ (pc[t] = "gi_panic" /\ pc'[t] = "panicked") => mutex # t /\ mutex' = mutex
       /\ ~poisoned'
       /\ res'[t] # "lock_panic"]_vars

\* a lookup of "c" panicked while the Registry was that of MenuA; another
\* thread then took the lock, stored MenuB and returned
C17_Witness ==
  \E t, u \in Threads :
    /\ pc[t] = "panicked" /\ res[t] = "gi_panic" /\ idArg[t] = "c"
    /\ pc[u] = "idle" /\ res[u] = "sm_ok" /\ lastStorer = u
    /\ ids = flatten(MenuB)
    /\ mutex = NoThread

\* C18: set_icon calls the native set_icon exactly once and returns its
\* outcome: Ok when the tray took the icon, the platform error when it did
\* not (the shown icon then stays); either way the Registry, its lock and
\* the installed menu are unchanged.
C18_SetIconDelegatesOnce ==
  [][\A t \in Threads :
       /\ (pc[t] = "idle" /\ pc'[t] = "si_native") =>
            /\ nSetIcon' = nSetIcon /\ trayIcon' = trayIcon
            /\ ids' = ids /\ native' = native
       /\ pc[t] = "si_native" => pc'[t] \in {"si_native", "idle"}
       /\ (pc[t] = "si_native" /\ pc'[t] = "idle") =>
            /\ nSetIcon' = nSetIcon + 1
            /\ res'[t] \in {"si_ok", "si_err"}
            /\ res'[t] = "si_ok" => trayIcon' = iconArg[t]
            /\ res'[t] = "si_err" => trayIcon' = trayIcon
            /\ ids' = ids /\ native' = native /\ mutex' = mutex]_vars

\* a Raw icon was rejected by a tray showing a File icon: one native call,
\* the caller holds the error, menu and Registry are those of the start
C18_Witness ==
  \E t \in Threads :
    /\ pc[t] = "idle" /\ res[t] = "si_err" /\ iconArg[t] = "Raw"
    /\ trayIcon = "File" /\ nSetIcon = 1
    /\ native = MenuA /\ ids = flatten(MenuA)

\* thread t waits in lock()
WaitsForLock(t) == pc[t] \in {"sm_lock", "gi_lock"}

\* thread t has no call in progress: it is between calls, or its call failed
CallOver(t) == pc[t] \in {"idle", "panicked"}

\* C16: no call blocks for ever: the Mutex is only taken when free and never
\* by a thread waiting for it, so whenever threads wait either the lock is
\* free or its holder is running; and, native calls returning, every call of
\* every thread eventually is over (it returned or failed).
C16_EveryCallCompletes ==
  /\ [](\A t \in Threads : mutex = t => pc[t] \in {"sm_store", "gi_scan", "gi_clone"})
  /\ [][\A t \in Threads :
          (mutex' = t /\ mutex # t) => (mutex = NoThread /\ WaitsForLock(t))]_vars
  /\ \A t \in Threads : ~CallOver(t) ~> CallOver(t)

\* every thread is inside a call on the Registry: one holds the lock in
\* set_menu, all the others wait in get_item's lock()
C16_Witness ==
  \E t \in Threads :
    /\ mutex = t /\ pc[t] = "sm_store"
    /\ \A u \in Threads \ {t} : pc[u] = "gi_lock"

\* C19 as stated: show always returns success, having handed the notification
\* to exactly one spawned dispatch
C19_Original ==
  nPc = "returned" => nRes = "Ok" /\ nSpawned = 1

\* C19 amended: show spawns at most one dispatch and never waits for it; it
\* returns Ok with exactly one dispatch spawned, except on Windows when the
\* running executable cannot be resolved, where it returns that error and
\* spawns nothing; the outcome of the dispatch changes neither the value
\* returned nor the caller's position.
C19_ShowFireAndForget ==
  [][/\ nSpawned' <= 1
     /\ nPc' = "returned" =>
          IF nPlatform = "windows" /\ ~nExe.ok
            THEN nRes' = "Err" /\ nSpawned' = 0 /\ nTask' = "none"
            ELSE nRes' = "Ok" /\ nSpawned' = 1
     /\ (nPc = "ret" /\ nPc' = "returned") => nTask' = nTask
     /\ (nTask = "pending" /\ nTask' # "pending") =>
          nRes' = nRes /\ nPc' = nPc]_vars

\* the dispatch failed after show had returned Ok to its caller
C19_Witness ==
  /\ nPc = "returned" /\ nRes = "Ok"
  /\ nTask = "panicked" /\ nSpawned = 1
  /\ nBuilt.body = "body"

============================================================================
